---- MODULE Spec2Model ----
(***************************************************************************)
(* Blacksmith git-mirror cache of useblacksmith/checkout: one job, run as  *)
(* two invocations of the action (main phase, then post phase), against    *)
(* the sticky-disk broker, the block device and the bare mirror on it.     *)
(*                                                                         *)
(*   main phase : run() -> getSource -> setupCache -> ensureMirror         *)
(*   post phase : cleanup() of main.ts -> refreshMirror ->                 *)
(*                checkPreviousStepFailures -> cleanup() of                *)
(*                blacksmith-cache.ts (GC, fsck, sync, umount, commit)     *)
(***************************************************************************)
EXTENDS Integers, Sequences, FiniteSets, TLC

\* Number of attempts the retry helper makes before it rethrows.
MaxAttempts == 3

\* Longest repository name the path functions are applied to.
MaxNameLen == 2

\* Exit code returned by the `timeout` command when the child is killed.
TIMEOUT_EXIT_CODE == 124

VARIABLES
  pc,          \* position of the running invocation, "idle" between them
  invocation,  \* number of invocations of the action started so far
  env,         \* process environment: [vmIdSet, vmId] for BLACKSMITH_VM_ID,
               \* githubRepoName for GITHUB_REPO_NAME ("" when unset),
               \* token for the `token` input of the step
  state,       \* cross-phase key/value store (core.saveState / core.getState)
  broker,      \* [granted, holder, exposeId, commits]: the lease, commit calls received
  disk,        \* [formatted, mounted, umountTried, mirror]
  cacheInfo,   \* CacheInfo held by the main phase
  cmds,        \* commands and RPCs issued by the main phase, in order
  ops,         \* operations run by the post phase, in order
  opts,        \* CleanupOptions handed to blacksmith-cache cleanup()
  shouldCommit,\* cleanup()'s local `let {shouldCommit} = options`
  obs,         \* outcomes observed by the job: RPC answers, operation results
  warnings,    \* tags of core.warning calls
  failed,      \* core.setFailed was called, or an exception escaped
  self,        \* the job whose invocation is running (1 or 2)
  other,       \* the per-job state of the job that is not running
  fn           \* arguments and results of the path functions under check

vars == <<pc, invocation, env, state, broker, disk, cacheInfo, cmds, ops,
          opts, shouldCommit, obs, warnings, failed, self, other, fn>>

----------------------------------------------------------------------------
\* Values

StickyDiskKey == "owner-repo"
RepoName == "owner/repo"
\* The repository of the workflow, when another repository is checked out.
WorkflowRepoName == "workflow/repo"
MountPoint == "/blacksmith-git-mirror/owner/repo"
MirrorPath == "/blacksmith-git-mirror/owner/repo/v1/owner-repo.git"
RepoUrl == "https://github.com/owner/repo"
\* A value of the `token` input.
Token == "ghs_token"

NoResult == [ran |-> FALSE, success |-> TRUE, timedOut |-> FALSE, error |-> ""]

EmptyState ==
  [isPost |-> "", blacksmithCacheExposeId |-> "",
   blacksmithCacheStickyDiskKey |-> "", blacksmithCacheMirrorPath |-> "",
   blacksmithCachePerformedHydration |-> "", blacksmithCacheRepoUrl |-> ""]

NoCacheInfo ==
  [exposeId |-> "", stickyDiskKey |-> "", repoName |-> "", device |-> "",
   mountPoint |-> "", mirrorPath |-> "", hydrationInProgress |-> FALSE,
   performedHydration |-> FALSE]

NoOpts ==
  [exposeId |-> "", stickyDiskKey |-> "", repoName |-> "", mountPoint |-> "",
   mirrorPath |-> "", shouldCommit |-> FALSE, vmHydratedGitMirror |-> FALSE,
   mirrorRefreshFailed |-> FALSE, mirrorRefreshTimedOut |-> FALSE]

NoAnswer == [kind |-> "none", exposeId |-> "", diskIdentifier |-> ""]

\* No command has been run through exec.
NoExec == [threw |-> FALSE, exitCode |-> 0]

NoObs ==
  [inBlacksmith |-> "unset", up |-> "unset", answer |-> NoAnswer,
   hadFilesystem |-> "unset", acquireRepoName |-> "", refreshToken |-> "",
   jobCheck |-> "unset",
   refresh |-> NoResult, gc |-> NoResult, fsck |-> NoResult,
   refreshExec |-> NoExec, gcExec |-> NoExec, fsckExec |-> NoExec]

\* The per-job part of the state of a job that has not started.
NoJob ==
  [pc |-> "idle", invocation |-> 0, state |-> EmptyState,
   cacheInfo |-> NoCacheInfo, cmds |-> <<>>, ops |-> <<>>, opts |-> NoOpts,
   shouldCommit |-> FALSE, obs |-> NoObs, warnings |-> {}, failed |-> FALSE,
   mounted |-> FALSE, umountTried |-> FALSE]

\* No call of the path functions yet, and no arguments chosen.
NoFn ==
  [owner1 |-> <<>>, repo1 |-> <<>>, owner2 |-> <<>>, repo2 |-> <<>>,
   mount1 |-> <<>>, mount2 |-> <<>>, mirror1 |-> <<>>, mirror2 |-> <<>>,
   key1 |-> <<>>, key2 |-> <<>>, calls |-> {}]

----------------------------------------------------------------------------
\* state-helper.ts

\* IsPost with the saved state not looked at.
IsPostNever == FALSE

\* `!!core.getState('isPost')`
IsPost == state.isPost /= ""

BlacksmithCacheExposeId == state.blacksmithCacheExposeId

\* BlacksmithCacheStickyDiskKey read from the key of the mirror path.
BlacksmithCacheStickyDiskKeyFromMirrorPath == state.blacksmithCacheMirrorPath

BlacksmithCacheStickyDiskKey == state.blacksmithCacheStickyDiskKey

BlacksmithCacheMirrorPath == state.blacksmithCacheMirrorPath

\* BlacksmithCachePerformedHydration taking any saved flag as true.
BlacksmithCachePerformedHydrationIfSaved ==
  state.blacksmithCachePerformedHydration /= ""

BlacksmithCachePerformedHydration ==
  state.blacksmithCachePerformedHydration = "true"

BlacksmithCacheRepoUrl == state.blacksmithCacheRepoUrl

\* blacksmith-cache.ts
\* isBlacksmithEnvironment looking only at whether the variable is set.
isBlacksmithEnvironmentWhenSet == env.vmIdSet

\* `!!process.env.BLACKSMITH_VM_ID`
isBlacksmithEnvironment == env.vmIdSet /\ env.vmId /= ""

----------------------------------------------------------------------------
Init ==
  /\ pc = "idle"
  /\ invocation = 0
  /\ env \in [vmIdSet : BOOLEAN, vmId : {"", "vm-1"},
              githubRepoName : {"", RepoName, WorkflowRepoName},
              token : {"", Token}]
  /\ (~env.vmIdSet => env.vmId = "")
  /\ state = EmptyState
  /\ broker = [granted |-> FALSE, holder |-> 0, exposeId |-> "",
               commits |-> <<>>]
  /\ disk \in {[formatted |-> f, mounted |-> FALSE, umountTried |-> FALSE,
                mirror |-> m] :
                 f \in BOOLEAN, m \in {"absent", "complete"}}
  /\ (disk.mirror = "complete" => disk.formatted)
  /\ cacheInfo = NoCacheInfo
  /\ cmds = <<>>
  /\ ops = <<>>
  /\ opts = NoOpts
  /\ shouldCommit = FALSE
  /\ obs = NoObs
  /\ warnings = {}
  /\ failed = FALSE
  /\ self = 1
  /\ other = NoJob
  /\ fn = NoFn

----------------------------------------------------------------------------
\* main.ts: the dispatch at the bottom of the file; state-helper.ts saves
\* isPost when the module is loaded in the main invocation.
Dispatch ==
  /\ pc = "idle"
  /\ invocation < 2
  /\ invocation' = invocation + 1
  /\ IF ~IsPost
       THEN /\ state' = [state EXCEPT !.isPost = "true"]
            /\ obs' = [obs EXCEPT !.inBlacksmith =
                         IF isBlacksmithEnvironment THEN "true" ELSE "false"]
            /\ pc' = IF isBlacksmithEnvironment THEN "up" ELSE "idle"
       ELSE /\ state' = state
            /\ obs' = obs
            /\ pc' = "post_start"
  /\ UNCHANGED <<env, broker, disk, cacheInfo, cmds, ops, opts, shouldCommit,
                 warnings, failed, self, other, fn>>

----------------------------------------------------------------------------
\* The caller of setupCache / ensureMirror (getSource): a failure of either
\* is logged as a warning, cacheInfo becomes null and the standard checkout
\* proceeds; the main phase then ends.
FallBack(tag) ==
  /\ warnings' = warnings \cup {tag}
  /\ cacheInfo' = NoCacheInfo
  /\ pc' = "idle"

\* setupCache: `await client.up({})`
SetupUp ==
  /\ pc = "up"
  /\ cmds' = Append(cmds, "up")
  /\ \E ok \in BOOLEAN :
       /\ obs' = [obs EXCEPT !.up = IF ok THEN "ok" ELSE "failed"]
       /\ IF ok
            THEN pc' = "getStickyDisk" /\ UNCHANGED <<warnings, cacheInfo>>
            ELSE FallBack("setup-failed")
  /\ UNCHANGED <<invocation, env, state, broker, disk, ops, opts,
                 shouldCommit, failed, self, other, fn>>

\* Answers of the broker to getStickyDisk.
BrokerResponses ==
  [kind : {"ok"}, exposeId : {"", "expose-1"}, diskIdentifier : {"", "/dev/vdb"}]
    \cup [kind : {"aborted", "error"}, exposeId : {""}, diskIdentifier : {""}]

\* The CacheInfo returned for the Aborted status.
HydrationInProgressInfo ==
  [exposeId |-> "", stickyDiskKey |-> StickyDiskKey, repoName |-> RepoName,
   device |-> "", mountPoint |-> "", mirrorPath |-> "",
   hydrationInProgress |-> TRUE, performedHydration |-> FALSE]

\* Whether the answer hands out a lease: a device and the handle to commit it.
Granted(r) == r.kind = "ok" /\ r.exposeId /= "" /\ r.diskIdentifier /= ""

\* The answers the broker can give the running job: while another job holds
\* the lease of the key, only the Aborted status or an error.
BrokerAnswers ==
  IF broker.granted /\ broker.holder /= self
    THEN {r \in BrokerResponses : r.kind \in {"aborted", "error"}}
    ELSE BrokerResponses

\* SetupOutcome with the Aborted status not told apart from a granted lease.
SetupOutcomeAbortedProceeds(r) ==
  IF r.kind = "aborted" THEN "lease"
  ELSE IF r.kind = "error" THEN "throw"
  ELSE IF r.diskIdentifier = "" THEN "throw"
  ELSE IF r.exposeId = "" THEN "throw"
  ELSE "lease"

\* SetupOutcome with every error of getStickyDisk taken for the Aborted status.
SetupOutcomeAnyErrorInProgress(r) ==
  IF r.kind \in {"aborted", "error"} THEN "hydration-in-progress"
  ELSE IF r.diskIdentifier = "" THEN "throw"
  ELSE IF r.exposeId = "" THEN "throw"
  ELSE "lease"

\* SetupOutcome without the check of the response's exposeId.
SetupOutcomeNoExposeIdCheck(r) ==
  IF r.kind = "aborted" THEN "hydration-in-progress"
  ELSE IF r.kind = "error" THEN "throw"
  ELSE IF r.diskIdentifier = "" THEN "throw"
  ELSE "lease"

\* setupCache: what becomes of getStickyDisk's answer: the Aborted status is
\* returned as hydrationInProgress, any other error is rethrown, a response
\* without device or exposeId throws.
SetupOutcome(r) ==
  IF r.kind = "aborted" THEN "hydration-in-progress"
  ELSE IF r.kind = "error" THEN "throw"
  ELSE IF r.diskIdentifier = "" THEN "throw"
  ELSE IF r.exposeId = "" THEN "throw"
  ELSE "lease"

\* setupCache: getStickyDisk, the Aborted mapping, and the checks of the
\* response's device and exposeId.
\* The request of client.getStickyDisk.
GetStickyDiskRequest ==
  [stickyDiskKey |-> StickyDiskKey, repoName |-> RepoName]

SetupGetStickyDisk ==
  /\ pc = "getStickyDisk"
  /\ cmds' = Append(cmds, "getStickyDisk")
  /\ \E r \in BrokerAnswers :
       /\ obs' = [obs EXCEPT !.answer = r,
                    !.acquireRepoName = GetStickyDiskRequest.repoName]
       /\ broker' = IF Granted(r)
                      THEN [broker EXCEPT !.granted = TRUE, !.holder = self,
                                          !.exposeId = r.exposeId]
                      ELSE broker
       /\ CASE SetupOutcome(r) = "hydration-in-progress" ->
                 /\ cacheInfo' = HydrationInProgressInfo
                 /\ warnings' = warnings \cup {"hydration-in-progress"}
                 /\ pc' = "returned"
            [] SetupOutcome(r) = "throw" ->
                 FallBack("setup-failed")
            [] OTHER ->
                 /\ cacheInfo' = [NoCacheInfo EXCEPT
                                    !.exposeId = r.exposeId,
                                    !.device = r.diskIdentifier,
                                    !.stickyDiskKey = StickyDiskKey,
                                    !.repoName = RepoName]
                 /\ pc' = "format"
                 /\ warnings' = warnings
  /\ UNCHANGED <<invocation, env, state, disk, ops, opts, shouldCommit,
                 failed, self, other, fn>>

\* What `sudo blkid device` can answer: exit code 0 and a line with TYPE=
\* when it finds the filesystem; exit code 2 and no output when it finds
\* nothing, which is also its answer when it fails to probe a device that
\* carries a filesystem.
BlkidResults(formatted) ==
  IF formatted
    THEN {[exitCode |-> 0, hasType |-> TRUE], [exitCode |-> 2, hasType |-> FALSE]}
    ELSE {[exitCode |-> 2, hasType |-> FALSE]}

\* `result.exitCode === 0 && result.stdout.includes('TYPE=')`
AlreadyFormatted(result) == result.exitCode = 0 /\ result.hasType

\* maybeFormatDevice: blkid, then resize2fs on a device found formatted (a
\* failure is a warning) or mkfs.ext4 -F otherwise (a failure throws).
SetupFormat ==
  /\ pc = "format"
  /\ \E result \in BlkidResults(disk.formatted), ok \in BOOLEAN :
       /\ obs' = [obs EXCEPT !.hadFilesystem =
                    IF disk.formatted THEN "true" ELSE "false"]
       /\ IF AlreadyFormatted(result)
            THEN /\ cmds' = cmds \o <<"blkid", "resize2fs">>
                 /\ warnings' = IF ok THEN warnings
                                ELSE warnings \cup {"resize-failed"}
                 /\ UNCHANGED <<disk, cacheInfo>>
                 /\ pc' = "mount"
            ELSE /\ cmds' = cmds \o <<"blkid", "mkfs">>
                 /\ IF ok
                      THEN /\ disk' = [disk EXCEPT !.formatted = TRUE,
                                                   !.mirror = "absent"]
                           /\ pc' = "mount"
                           /\ UNCHANGED <<warnings, cacheInfo>>
                      ELSE /\ FallBack("setup-failed")
                           /\ disk' = disk
  /\ UNCHANGED <<invocation, env, state, broker, ops, opts, shouldCommit,
                 failed, self, other, fn>>

\* setupCache: mkdir -p mountPoint, mount device mountPoint, return CacheInfo.
SetupMount ==
  /\ pc = "mount"
  /\ \E mkdirOk \in BOOLEAN, mountOk \in BOOLEAN :
       IF ~mkdirOk
         THEN /\ cmds' = Append(cmds, "mkdir")
              /\ FallBack("setup-failed")
              /\ disk' = disk
         ELSE /\ cmds' = cmds \o <<"mkdir", "mount">>
              /\ IF mountOk
                   THEN /\ disk' = [disk EXCEPT !.mounted = TRUE]
                        /\ cacheInfo' = [cacheInfo EXCEPT
                                           !.mountPoint = MountPoint,
                                           !.mirrorPath = MirrorPath]
                        /\ pc' = "returned"
                        /\ warnings' = warnings
                   ELSE /\ FallBack("setup-failed")
                        /\ disk' = disk
  /\ UNCHANGED <<invocation, env, state, broker, ops, opts, shouldCommit,
                 obs, failed, self, other, fn>>

\* The caller after setupCache returned: on hydrationInProgress it falls
\* back to the standard checkout; otherwise it saves the lease to the
\* cross-phase state and goes on to ensureMirror.
SaveLease ==
  /\ pc = "returned"
  /\ IF cacheInfo.hydrationInProgress
       THEN /\ cacheInfo' = NoCacheInfo
            /\ pc' = "idle"
            /\ state' = state
       ELSE /\ state' = [state EXCEPT
                 !.blacksmithCacheExposeId = cacheInfo.exposeId,
                 !.blacksmithCacheStickyDiskKey = cacheInfo.stickyDiskKey,
                 !.blacksmithCacheMirrorPath = cacheInfo.mirrorPath,
                 !.blacksmithCacheRepoUrl = RepoUrl]
            /\ pc' = "ensureMirror"
            /\ cacheInfo' = cacheInfo
  /\ UNCHANGED <<invocation, env, broker, disk, cmds, ops, opts,
                 shouldCommit, obs, warnings, failed, self, other, fn>>

----------------------------------------------------------------------------
\* ensureMirror

\* MirrorExists answering that nothing is at the path, whatever is there.
MirrorExistsNever(mirror) == FALSE

\* MirrorExists answering that something is at the path, whatever is there.
MirrorExistsAlways(mirror) == TRUE

\* fs.existsSync(mirrorPath): a partially cloned directory exists too.
MirrorExists(mirror) == mirror /= "absent"

\* What one `git clone --mirror` attempt can do: succeed, fail having removed
\* what it wrote, or fail (or be killed) leaving a partial directory behind.
CloneOutcomes == {"ok", "failed-clean", "failed-partial"}

\* The action handed to retryHelper.execute: remove a partial directory left
\* by a previous attempt, then clone.
CloneAttempt(mirror, outcome) ==
  LET cleared == IF MirrorExists(mirror) THEN "absent" ELSE mirror
  IN  CASE outcome = "ok" -> [mirror |-> "complete", ok |-> TRUE]
        [] outcome = "failed-partial" -> [mirror |-> "partial", ok |-> FALSE]
        [] OTHER -> [mirror |-> cleared, ok |-> FALSE]

\* retryHelper.execute around the clone: up to MaxAttempts attempts, the
\* error of the last one is rethrown.
RECURSIVE RetryClone(_, _, _)
RetryClone(mirror, outcomes, attempt) ==
  LET r == CloneAttempt(mirror, outcomes[attempt])
  IN  IF r.ok THEN [mirror |-> r.mirror, threw |-> FALSE]
      ELSE IF attempt < MaxAttempts
             THEN RetryClone(r.mirror, outcomes, attempt + 1)
             ELSE [mirror |-> r.mirror, threw |-> TRUE]

\* ensureMirror(mirrorPath, ...): result [mirror, threw, hydrated].
ensureMirror(mirror, prepOk, outcomes) ==
  IF MirrorExists(mirror)
    THEN [mirror |-> mirror, threw |-> FALSE, hydrated |-> FALSE]
    ELSE IF ~prepOk
      THEN [mirror |-> mirror, threw |-> TRUE, hydrated |-> FALSE]
      ELSE LET r == RetryClone(mirror, outcomes, 1)
           IN  [mirror |-> r.mirror, threw |-> r.threw, hydrated |-> ~r.threw]

\* The caller runs ensureMirror on the mounted disk and saves
\* performedHydration when it returns; when it throws the caller falls back.
EnsureMirror ==
  /\ pc = "ensureMirror"
  /\ \E prepOk \in BOOLEAN, outcomes \in [1..MaxAttempts -> CloneOutcomes] :
       LET r == ensureMirror(disk.mirror, prepOk, outcomes)
       IN  /\ disk' = [disk EXCEPT !.mirror = r.mirror]
           /\ cmds' = IF MirrorExists(disk.mirror) THEN cmds
                      ELSE IF ~prepOk THEN Append(cmds, "mkdir-mirror")
                      ELSE cmds \o <<"mkdir-mirror", "clone">>
           /\ IF r.threw
                THEN /\ FallBack("setup-failed")
                     /\ state' = state
                ELSE /\ state' = [state EXCEPT
                          !.blacksmithCachePerformedHydration =
                             IF r.hydrated THEN "true" ELSE "false"]
                     /\ cacheInfo' = [cacheInfo EXCEPT
                                        !.performedHydration = r.hydrated]
                     /\ pc' = "idle"
                     /\ warnings' = warnings
  /\ UNCHANGED <<invocation, env, broker, ops, opts, shouldCommit, obs,
                 failed, self, other, fn>>

----------------------------------------------------------------------------
\* Timeboxed mirror operations (OperationResult)

\* What running `timeout N git ...` through exec.getExecOutput can do: return
\* an exit code (0, a failure, or the timeout's), or throw.
ExecOutcomes ==
  {[threw |-> FALSE, exitCode |-> c] : c \in {0, 1, TIMEOUT_EXIT_CODE}}
    \cup {[threw |-> TRUE, exitCode |-> 0]}

Result(success, timedOut, error) ==
  [ran |-> TRUE, success |-> success, timedOut |-> timedOut, error |-> error]

\* The error message one fetch attempt of refreshMirror ends with ("" when
\* it succeeds).
FetchAttempt(o) ==
  IF o.threw THEN "exec failed"
  ELSE IF o.exitCode = TIMEOUT_EXIT_CODE THEN "git fetch timed out"
  ELSE IF o.exitCode /= 0 THEN "git fetch failed with exit code"
  ELSE ""

\* retryHelper.execute around the fetch: "" on success, else the message of
\* the last attempt's error.
RECURSIVE RetryFetch(_, _)
RetryFetch(outcomes, attempt) ==
  LET msg == FetchAttempt(outcomes[attempt])
  IN  IF msg = "" THEN ""
      ELSE IF attempt < MaxAttempts THEN RetryFetch(outcomes, attempt + 1)
      ELSE msg

\* The attempt of the fetch that decides the result: the first that
\* succeeds, else the last.
RECURSIVE DecidingAttempt(_, _)
DecidingAttempt(outcomes, attempt) ==
  IF FetchAttempt(outcomes[attempt]) = "" \/ attempt >= MaxAttempts
    THEN attempt
    ELSE DecidingAttempt(outcomes, attempt + 1)

\* IncludesTimedOut answering yes for every message.
IncludesTimedOutAlways(msg) == TRUE

\* `msg.includes('timed out')` on the messages modelled
IncludesTimedOut(msg) == msg \in {"git fetch timed out"}

\* The operations refreshMirror runs on the mirror: none when nothing exists
\* at the path.
RefreshOps(mirror) == IF MirrorExists(mirror) THEN <<"refresh">> ELSE <<>>

\* refreshMirror(mirrorPath, ...): no-op success when no mirror exists; the
\* catch block derives timedOut from the message.
refreshMirror(mirror, outcomes) ==
  IF ~MirrorExists(mirror) THEN Result(TRUE, FALSE, "")
  ELSE LET msg == RetryFetch(outcomes, 1)
       IN  IF msg = "" THEN Result(TRUE, FALSE, "")
           ELSE Result(FALSE, IncludesTimedOut(msg), msg)

runMirrorGC(o) ==
  IF o.threw THEN Result(FALSE, FALSE, "exec failed")
  ELSE IF o.exitCode = TIMEOUT_EXIT_CODE
    THEN Result(FALSE, TRUE, "git gc timed out")
  ELSE IF o.exitCode /= 0
    THEN Result(FALSE, FALSE, "git gc failed with exit code")
  ELSE Result(TRUE, FALSE, "")

runMirrorFsck(o) ==
  IF o.threw THEN Result(FALSE, FALSE, "exec failed")
  ELSE IF o.exitCode = TIMEOUT_EXIT_CODE
    THEN Result(FALSE, TRUE, "git fsck timed out")
  ELSE IF o.exitCode /= 0
    THEN Result(FALSE, FALSE, "git fsck failed with exit code")
  ELSE Result(TRUE, FALSE, "")

----------------------------------------------------------------------------
\* Post phase: cleanup() of main.ts

\* Answers of checkPreviousStepFailures (it may also throw).
FailureChecks ==
  [threw : {FALSE}, error : {"", "cannot read runner logs"},
   hasFailures : BOOLEAN]
    \cup [threw : {TRUE}, error : {""}, hasFailures : {FALSE}]

\* JobShouldCommit with the error field of the failure check not looked at.
JobShouldCommitIgnoringError(failureCheck) ==
  IF failureCheck.hasFailures THEN FALSE ELSE TRUE

\* main.ts: shouldCommit as decided from the failure check.
JobShouldCommit(failureCheck) ==
  IF failureCheck.error /= "" THEN FALSE
  ELSE IF failureCheck.hasFailures THEN FALSE
  ELSE TRUE

\* main.ts: `const vmHydratedGitMirror = shouldCommit && performedHydration`
VmHydratedGitMirror(sc, performedHydration) == sc /\ performedHydration

\* main.ts: the options object handed to blacksmithCache.cleanup. The
\* refresh result, the mount point and the repo name are not passed.
MainCleanupOptions(exposeId, stickyDiskKey, mirrorPath, sc, vmHydrated) ==
  [exposeId |-> exposeId, stickyDiskKey |-> stickyDiskKey, repoName |-> "",
   mountPoint |-> "", mirrorPath |-> mirrorPath, shouldCommit |-> sc,
   vmHydratedGitMirror |-> vmHydrated, mirrorRefreshFailed |-> FALSE,
   mirrorRefreshTimedOut |-> FALSE]

\* HasLease with the saved state not looked at.
HasLeaseAlways(exposeId, stickyDiskKey) == TRUE

\* main.ts: `if (exposeId && stickyDiskKey)`
HasLease(exposeId, stickyDiskKey) == exposeId /= "" /\ stickyDiskKey /= ""

\* Caught with the exception rethrown instead of logged.
CaughtRethrown(tag) == [warnings |-> {}, failed |-> TRUE]

\* main.ts, cleanup(): `try { ... } catch (error) { core.warning(...) }`:
\* what an exception thrown inside the block ends as.
Caught(tag) == [warnings |-> {tag}, failed |-> FALSE]

\* gitSourceProvider.cleanup in its try/catch, then the read of the state.
PostStart ==
  /\ pc = "post_start"
  /\ \E ok \in BOOLEAN :
       IF ok THEN UNCHANGED <<warnings, failed>>
       ELSE /\ warnings' = warnings \cup Caught("workspace-cleanup-failed").warnings
            /\ failed' = (failed \/ Caught("workspace-cleanup-failed").failed)
  /\ pc' = IF HasLease(BlacksmithCacheExposeId, BlacksmithCacheStickyDiskKey)
             THEN "post_refresh" ELSE "exit"
  /\ UNCHANGED <<invocation, env, state, broker, disk, cacheInfo, cmds, ops,
                 opts, shouldCommit, obs, self, other, fn>>

\* ShouldRefresh with the test of performedHydration inverted.
ShouldRefreshAfterHydration(mirrorPath, repoUrl, performedHydration) ==
  mirrorPath /= "" /\ repoUrl /= "" /\ performedHydration

\* main.ts: `if (mirrorPath && repoUrl && !performedHydration)`
ShouldRefresh(mirrorPath, repoUrl, performedHydration) ==
  mirrorPath /= "" /\ repoUrl /= "" /\ ~performedHydration

\* AuthToken taken from the cross-phase state instead of the input.
AuthTokenFromState == state.blacksmithCacheRepoUrl

\* `core.getInput('token', {required: false})`
AuthToken == env.token

\* The deferred refresh: run when this run did not hydrate, with the token
\* re-read from the input; the returned OperationResult is dropped.
PostRefresh ==
  /\ pc = "post_refresh"
  /\ IF ShouldRefresh(BlacksmithCacheMirrorPath, BlacksmithCacheRepoUrl,
                      BlacksmithCachePerformedHydration)
       THEN \E outcomes \in [1..MaxAttempts -> ExecOutcomes] :
              IF AuthToken /= ""
                THEN LET r == refreshMirror(disk.mirror, outcomes)
                     IN  /\ obs' = [obs EXCEPT !.refresh = r,
                                      !.refreshToken = AuthToken,
                                      !.refreshExec =
                                        IF MirrorExists(disk.mirror)
                                          THEN outcomes[DecidingAttempt(
                                                 outcomes, 1)]
                                          ELSE NoExec]
                         /\ ops' = ops \o RefreshOps(disk.mirror)
                         /\ warnings' = IF r.success THEN warnings
                                        ELSE warnings \cup {"refresh-failed"}
                ELSE /\ warnings' = warnings \cup {"no-auth-token"}
                     /\ UNCHANGED <<obs, ops>>
       ELSE UNCHANGED <<obs, ops, warnings>>
  /\ pc' = "post_check"
  /\ UNCHANGED <<invocation, env, state, broker, disk, cacheInfo, cmds, opts,
                 shouldCommit, failed, self, other, fn>>

JobCheckTag(failureCheck) ==
  IF failureCheck.threw THEN "throws"
  ELSE IF failureCheck.error /= "" THEN "error"
  ELSE IF failureCheck.hasFailures THEN "failures"
  ELSE "ok"

\* checkPreviousStepFailures and the commit decision; a throw is caught by
\* the surrounding try/catch, which only warns.
PostCheck ==
  /\ pc = "post_check"
  /\ \E failureCheck \in FailureChecks :
       /\ obs' = [obs EXCEPT !.jobCheck = JobCheckTag(failureCheck)]
       /\ IF failureCheck.threw
            THEN /\ warnings' = warnings \cup Caught("cleanup-failed").warnings
                 /\ failed' = (failed \/ Caught("cleanup-failed").failed)
                 /\ pc' = "exit"
                 /\ opts' = opts
            ELSE LET sc == JobShouldCommit(failureCheck)
                     vm == VmHydratedGitMirror(sc,
                             BlacksmithCachePerformedHydration)
                 IN  /\ opts' = MainCleanupOptions(BlacksmithCacheExposeId,
                                  BlacksmithCacheStickyDiskKey,
                                  BlacksmithCacheMirrorPath, sc, vm)
                     /\ warnings' = IF sc THEN warnings
                                    ELSE warnings \cup {"skip-commit"}
                     /\ failed' = failed
                     /\ pc' = "cleanup"
  /\ UNCHANGED <<invocation, env, state, broker, disk, cacheInfo, cmds, ops,
                 shouldCommit, self, other, fn>>

----------------------------------------------------------------------------
\* cleanup(options) of blacksmith-cache.ts

\* AfterRefresh looking only at mirrorRefreshFailed.
AfterRefreshIgnoringTimeout(sc, mirrorRefreshFailed, mirrorRefreshTimedOut) ==
  IF mirrorRefreshFailed THEN FALSE ELSE sc

\* `if (mirrorRefreshFailed || mirrorRefreshTimedOut) shouldCommit = false`
AfterRefresh(sc, mirrorRefreshFailed, mirrorRefreshTimedOut) ==
  IF mirrorRefreshFailed \/ mirrorRefreshTimedOut THEN FALSE ELSE sc

\* AfterGC with the GC result not gating the commit.
AfterGCUngated(sc, gcResult) == sc

\* `if (!result.gcResult.success) shouldCommit = false`
AfterGC(sc, gcResult) == IF ~gcResult.success THEN FALSE ELSE sc

\* AfterFsck with the fsck result not gating the commit.
AfterFsckUngated(sc, fsckResult) == sc

\* `if (!result.fsckResult.success) shouldCommit = false`
AfterFsck(sc, fsckResult) == IF ~fsckResult.success THEN FALSE ELSE sc

\* CleanupNext with the filesystem sync placed before the integrity check.
CleanupNextSyncFirst(step) ==
  CASE step = "cleanup" -> "gc"
    [] step = "gc" -> "sync"
    [] step = "sync" -> "fsck"
    [] step = "fsck" -> "umount"
    [] step = "umount" -> "commit"
    [] OTHER -> "exit"

\* CleanupNext with the integrity check left out.
CleanupNextWithoutFsck(step) ==
  CASE step = "cleanup" -> "gc"
    [] step = "gc" -> "sync"
    [] step = "sync" -> "umount"
    [] step = "umount" -> "commit"
    [] OTHER -> "exit"

\* CleanupNext with the garbage collection placed after the integrity check.
CleanupNextGCAfterFsck(step) ==
  CASE step = "cleanup" -> "fsck"
    [] step = "fsck" -> "gc"
    [] step = "gc" -> "sync"
    [] step = "sync" -> "umount"
    [] step = "umount" -> "commit"
    [] OTHER -> "exit"

\* The order of cleanup's steps.
CleanupNext(step) ==
  CASE step = "cleanup" -> "gc"
    [] step = "gc" -> "fsck"
    [] step = "fsck" -> "sync"
    [] step = "sync" -> "umount"
    [] step = "umount" -> "commit"
    [] OTHER -> "exit"

CleanupStart ==
  /\ pc = "cleanup"
  /\ shouldCommit' = AfterRefresh(opts.shouldCommit, opts.mirrorRefreshFailed,
                                  opts.mirrorRefreshTimedOut)
  /\ warnings' = IF opts.mirrorRefreshFailed \/ opts.mirrorRefreshTimedOut
                   THEN warnings \cup {"refresh-gate"} ELSE warnings
  /\ pc' = CleanupNext(pc)
  /\ UNCHANGED <<invocation, env, state, broker, disk, cacheInfo, cmds, ops,
                 opts, obs, failed, self, other, fn>>

CleanupGC ==
  /\ pc = "gc"
  /\ IF opts.mirrorPath /= ""
       THEN \E o \in ExecOutcomes :
              LET gcResult == runMirrorGC(o)
              IN  /\ obs' = [obs EXCEPT !.gc = gcResult, !.gcExec = o]
                  /\ shouldCommit' = AfterGC(shouldCommit, gcResult)
                  /\ ops' = Append(ops, "gc")
                  /\ warnings' = IF gcResult.success THEN warnings
                                 ELSE warnings \cup {"gc-failed"}
       ELSE UNCHANGED <<obs, shouldCommit, ops, warnings>>
  /\ pc' = CleanupNext(pc)
  /\ UNCHANGED <<invocation, env, state, broker, disk, cacheInfo, cmds, opts,
                 failed, self, other, fn>>

CleanupFsck ==
  /\ pc = "fsck"
  /\ IF opts.mirrorPath /= ""
       THEN \E o \in ExecOutcomes :
              LET fsckResult == runMirrorFsck(o)
              IN  /\ obs' = [obs EXCEPT !.fsck = fsckResult, !.fsckExec = o]
                  /\ shouldCommit' = AfterFsck(shouldCommit, fsckResult)
                  /\ ops' = Append(ops, "fsck")
                  /\ warnings' = IF fsckResult.success THEN warnings
                                 ELSE warnings \cup {"fsck-failed"}
       ELSE UNCHANGED <<obs, shouldCommit, ops, warnings>>
  /\ pc' = CleanupNext(pc)
  /\ UNCHANGED <<invocation, env, state, broker, disk, cacheInfo, cmds, opts,
                 failed, self, other, fn>>

CleanupSync ==
  /\ pc = "sync"
  /\ ops' = Append(ops, "sync")
  /\ \E ok \in BOOLEAN :
       warnings' = IF ok THEN warnings ELSE warnings \cup {"sync-failed"}
  /\ pc' = CleanupNext(pc)
  /\ UNCHANGED <<invocation, env, state, broker, disk, cacheInfo, cmds, opts,
                 shouldCommit, obs, failed, self, other, fn>>

CleanupUmount ==
  /\ pc = "umount"
  /\ IF opts.mountPoint /= ""
       THEN \E ok \in BOOLEAN :
              /\ ops' = Append(ops, "umount")
              /\ disk' = [disk EXCEPT !.umountTried = TRUE,
                                      !.mounted = IF ok THEN FALSE ELSE @]
              /\ warnings' = IF ok THEN warnings
                             ELSE warnings \cup {"umount-failed"}
       ELSE UNCHANGED <<ops, disk, warnings>>
  /\ pc' = CleanupNext(pc)
  /\ UNCHANGED <<invocation, env, state, broker, cacheInfo, cmds, opts,
                 shouldCommit, obs, failed, self, other, fn>>

\* The request of client.commitStickyDisk.
CommitRequest ==
  [exposeId |-> opts.exposeId, stickyDiskKey |-> opts.stickyDiskKey,
   shouldCommit |-> shouldCommit,
   repoName |-> IF opts.repoName /= "" THEN opts.repoName
                ELSE env.githubRepoName,
   vmHydratedGitMirror |-> opts.vmHydratedGitMirror]

\* commitStickyDisk; when the RPC fails the exception reaches the catch of
\* main.ts, which warns.
CleanupCommit ==
  /\ pc = "commit"
  /\ ops' = Append(ops, "commit")
  /\ broker' = [broker EXCEPT !.commits = Append(@, CommitRequest)]
  /\ \E rpcOk \in BOOLEAN :
       IF rpcOk THEN UNCHANGED <<warnings, failed>>
       ELSE /\ warnings' = warnings \cup Caught("cleanup-failed").warnings
            /\ failed' = (failed \/ Caught("cleanup-failed").failed)
  /\ pc' = CleanupNext(pc)
  /\ UNCHANGED <<invocation, env, state, disk, cacheInfo, cmds, opts,
                 shouldCommit, obs, self, other, fn>>

Next ==
  \/ Dispatch
  \/ SetupUp
  \/ SetupGetStickyDisk
  \/ SetupFormat
  \/ SetupMount
  \/ SaveLease
  \/ EnsureMirror
  \/ PostStart
  \/ PostRefresh
  \/ PostCheck
  \/ CleanupStart
  \/ CleanupGC
  \/ CleanupFsck
  \/ CleanupSync
  \/ CleanupUmount
  \/ CleanupCommit


Spec == Init /\ [][Next]_vars

----------------------------------------------------------------------------
\* Properties

Commits == broker.commits

Committed == Len(Commits) > 0

PostEnded == pc = "exit"

JobFailureSeen == obs.jobCheck \in {"failures", "error", "throws"}

Range(seq) == {seq[i] : i \in DOMAIN seq}

\* C1: at the broker commit call, vmHydratedGitMirror is true only if the
\* shouldCommit sent in the same call is true.
C1_HydratedOnlyIfCommitted ==
  \A i \in DOMAIN Commits :
    Commits[i].vmHydratedGitMirror => Commits[i].shouldCommit

\* C2: once the broker has granted a lease, commitStickyDisk is called
\* exactly once by the time the post phase has ended, and never twice.
C2_CommitExactlyOnce ==
  /\ Len(Commits) <= 1
  /\ (PostEnded /\ broker.granted) => Len(Commits) = 1

\* C3: the shouldCommit sent to the broker is true if and only if the job
\* check reported nothing and refresh, GC and fsck all succeeded.
C3_CommitIffNothingFailed ==
  \A i \in DOMAIN Commits :
    Commits[i].shouldCommit <=>
      (~JobFailureSeen /\ obs.refresh.success /\ obs.gc.success
         /\ obs.fsck.success)

\* C4: when refreshMirror returned success=false in the post phase, the
\* commit call that follows carries shouldCommit=false.
C4_RefreshFailureBlocksCommit ==
  \A i \in DOMAIN Commits :
    (obs.refresh.ran /\ ~obs.refresh.success) => ~Commits[i].shouldCommit

\* C5: when fsck failed or timed out, commitStickyDisk is still called, and
\* it carries shouldCommit=false, whatever the incoming shouldCommit and
\* the GC result were.
C5_FsckFailureStillCommitsFalse ==
  (obs.fsck.ran /\ ~obs.fsck.success) =>
    /\ pc \in {"sync", "umount", "commit", "exit"}
    /\ ~shouldCommit
    /\ (PostEnded => Len(Commits) = 1)
    /\ \A i \in DOMAIN Commits : ~Commits[i].shouldCommit

C5_Witness ==
  /\ PostEnded /\ Len(Commits) = 1
  /\ obs.fsck.ran /\ ~obs.fsck.success
  /\ obs.gc.ran /\ obs.gc.success
  /\ opts.shouldCommit
  /\ ~Commits[1].shouldCommit

\* C6: when GC failed or timed out, the commit call carries
\* shouldCommit=false, also when the fsck that ran afterwards succeeded.
C6_GCFailureBlocksCommit ==
  (obs.gc.ran /\ ~obs.gc.success) =>
    /\ ~shouldCommit
    /\ \A i \in DOMAIN Commits : ~Commits[i].shouldCommit

C6_Witness ==
  /\ Len(Commits) = 1
  /\ obs.gc.ran /\ ~obs.gc.success
  /\ obs.fsck.ran /\ obs.fsck.success
  /\ opts.shouldCommit
  /\ ~Commits[1].shouldCommit

\* C7: when the job-failure observer reported failed steps, returned an
\* error, or threw, the broker receives no commit call with
\* shouldCommit=true.
C7_FailClosedJobGate ==
  JobFailureSeen => \A i \in DOMAIN Commits : ~Commits[i].shouldCommit

C7_Witness ==
  /\ obs.jobCheck = "error"
  /\ Len(Commits) = 1
  /\ obs.refresh.success /\ obs.gc.ran /\ obs.gc.success
  /\ obs.fsck.ran /\ obs.fsck.success
  /\ ~Commits[1].shouldCommit

\* C8: once ensureMirror has run its clone on an absent mirrorPath and
\* finished, mirrorPath holds a complete mirror or nothing: no partial
\* directory survives the call.
C8_CloneAtomic ==
  (pc /= "ensureMirror" /\ "clone" \in Range(cmds)) => disk.mirror /= "partial"

\* The place of a post-phase operation in the order refresh, GC, fsck, sync,
\* unmount, commit.
Rank(op) ==
  CASE op = "refresh" -> 1
    [] op = "gc" -> 2
    [] op = "fsck" -> 3
    [] op = "sync" -> 4
    [] op = "umount" -> 5
    [] op = "commit" -> 6
    [] OTHER -> 0

\* C9: the operations the post phase runs occur in the order refresh, GC,
\* fsck, sync, unmount, commit, each at most once, the commit call last.
C9_CleanupOrder ==
  \A i, j \in DOMAIN ops : i < j => Rank(ops[i]) < Rank(ops[j])

C9_Witness ==
  /\ PostEnded
  /\ Len(ops) >= 5
  /\ ops[1] = "refresh" /\ ops[2] = "gc" /\ ops[3] = "fsck"
  /\ ops[4] = "sync" /\ ops[Len(ops)] = "commit"

\* C10: no commit call is issued for a disk that setup mounted and that the
\* post phase has not tried to unmount.
C10_UnmountTriedBeforeCommit ==
  (Committed /\ disk.mounted) => disk.umountTried
----------------------------------------------------------------------------
\* setupCache: error handling

\* The commands of the format step and of the mount step of setupCache.
FormatMountCmds == {"blkid", "resize2fs", "mkfs", "mkdir", "mount"}

\* setupCache has thrown: the caller logged the failure and fell back.
SetupThrew == "setup-failed" \in warnings

\* The CacheInfo setupCache returned, while the caller still holds it.
SetupReturned == pc = "returned"

\* C12: when getStickyDisk fails with the Aborted status, setupCache does not
\* throw, the CacheInfo it returns has hydrationInProgress = true,
\* performedHydration = false and empty exposeId, device, mountPoint and
\* mirrorPath, and no blkid, mkfs, mkdir or mount command has run.
C12_AbortedReturnsInProgress ==
  obs.answer.kind = "aborted" =>
    /\ ~SetupThrew
    /\ Range(cmds) \cap FormatMountCmds = {}
    /\ ~disk.mounted
    /\ SetupReturned =>
         /\ cacheInfo.hydrationInProgress
         /\ ~cacheInfo.performedHydration
         /\ cacheInfo.exposeId = "" /\ cacheInfo.device = ""
         /\ cacheInfo.mountPoint = "" /\ cacheInfo.mirrorPath = ""

C12_Witness ==
  /\ obs.answer.kind = "aborted"
  /\ SetupReturned
  /\ cmds = <<"up", "getStickyDisk">>

\* C13: a failure of up() throws without getStickyDisk being called, and a
\* non-Aborted failure of getStickyDisk is rethrown; in neither case is
\* hydrationInProgress reported or a device formatted or mounted.
C13_OtherBrokerFailuresThrow ==
  /\ obs.up = "failed" =>
       /\ SetupThrew
       /\ cmds = <<"up">>
       /\ obs.answer = NoAnswer
  /\ obs.answer.kind = "error" =>
       /\ SetupThrew
       /\ cmds = <<"up", "getStickyDisk">>
  /\ (obs.up = "failed" \/ obs.answer.kind = "error") =>
       /\ ~cacheInfo.hydrationInProgress
       /\ "hydration-in-progress" \notin warnings
       /\ ~SetupReturned
       /\ ~disk.mounted

C13_Witness ==
  /\ obs.answer.kind = "error"
  /\ SetupThrew
  /\ pc = "idle"

\* C14: a successful response without a device identifier or without an
\* exposeId makes setupCache throw before the format and mount steps; a
\* CacheInfo with hydrationInProgress = false has a non-empty exposeId and a
\* non-empty device.
C14_IncompleteResponseThrows ==
  /\ (obs.answer.kind = "ok"
        /\ (obs.answer.diskIdentifier = "" \/ obs.answer.exposeId = "")) =>
       /\ SetupThrew
       /\ cmds = <<"up", "getStickyDisk">>
       /\ ~disk.mounted
       /\ ~SetupReturned
  /\ (cacheInfo /= NoCacheInfo /\ ~cacheInfo.hydrationInProgress) =>
       cacheInfo.exposeId /= "" /\ cacheInfo.device /= ""

C14_Witness ==
  /\ obs.answer.kind = "ok"
  /\ obs.answer.diskIdentifier /= ""
  /\ obs.answer.exposeId = ""
  /\ SetupThrew

----------------------------------------------------------------------------
\* ensureMirror

\* ensureMirror returned (it did not throw): the caller saved its result.
EnsureMirrorReturned(st) == st.blacksmithCachePerformedHydration /= ""

----------------------------------------------------------------------------
\* The deferred refresh

\* The lease of this run came with a mirror already present: ensureMirror
\* returned false and left the refresh to the post phase.
RefreshDeferred ==
  /\ BlacksmithCacheExposeId /= ""
  /\ state.blacksmithCachePerformedHydration = "false"

\* The post phase has reached GC or the broker commit.
PastRefresh == "gc" \in Range(ops) \/ "commit" \in Range(ops)

\* The refresh was the first operation of the post phase.
RefreshRanFirst == Len(ops) > 0 /\ ops[1] = "refresh"

----------------------------------------------------------------------------
\* Failures on the cleanup path

\* The running invocation is the post phase.
InPost == invocation = 2

\* C17: in the post phase no exception leaves cleanup() and the job is never
\* marked failed; a failure of the job-failure observer, of the refresh, of
\* GC or of fsck that was observed has been logged as a warning.
C17_CleanupNeverFails ==
  InPost =>
    /\ ~failed
    /\ obs.jobCheck = "throws" => "cleanup-failed" \in warnings
    /\ ~obs.refresh.success => "refresh-failed" \in warnings
    /\ ~obs.gc.success => "gc-failed" \in warnings
    /\ ~obs.fsck.success => "fsck-failed" \in warnings

C17_Witness ==
  /\ InPost
  /\ PostEnded
  /\ {"workspace-cleanup-failed", "refresh-failed", "gc-failed",
      "fsck-failed", "sync-failed", "cleanup-failed"} \subseteq warnings
  /\ Committed

----------------------------------------------------------------------------
\* Two jobs that acquire the same cache key

\* The per-job part of the state of the running job.
JobState ==
  [pc |-> pc, invocation |-> invocation, state |-> state,
   cacheInfo |-> cacheInfo, cmds |-> cmds, ops |-> ops, opts |-> opts,
   shouldCommit |-> shouldCommit, obs |-> obs, warnings |-> warnings,
   failed |-> failed, mounted |-> disk.mounted,
   umountTried |-> disk.umountTried]

\* The other job runs on: the two jobs are separate processes on separate
\* VMs, so their steps interleave in any order. A job whose post phase has
\* ended has no step left to take.
Switch ==
  /\ other.pc /= "exit"
  /\ self' = IF self = 1 THEN 2 ELSE 1
  /\ other' = JobState
  /\ pc' = other.pc
  /\ invocation' = other.invocation
  /\ state' = other.state
  /\ cacheInfo' = other.cacheInfo
  /\ cmds' = other.cmds
  /\ ops' = other.ops
  /\ opts' = other.opts
  /\ shouldCommit' = other.shouldCommit
  /\ obs' = other.obs
  /\ warnings' = other.warnings
  /\ failed' = other.failed
  /\ disk' = [disk EXCEPT !.mounted = other.mounted,
                          !.umountTried = other.umountTried]
  /\ UNCHANGED <<env, broker, fn>>

\* Both jobs run on Blacksmith VMs and the mirror is not yet hydrated: the
\* device of the key is new.
ConcInit ==
  /\ Init
  /\ isBlacksmithEnvironment
  /\ disk.mirror = "absent"
  /\ ~disk.formatted
  /\ env.githubRepoName = RepoName
  /\ env.token = Token

ConcNext == Next \/ Switch

ConcSpec == ConcInit /\ [][ConcNext]_vars

----------------------------------------------------------------------------
\* Direct calls of the exported functions refreshMirror and cleanup

\* The CleanupOptions a caller can pass for the lease of the key.
CleanupOptionsSet ==
  [exposeId : {"expose-1"}, stickyDiskKey : {StickyDiskKey},
   repoName : {"", RepoName}, mountPoint : {"", MountPoint},
   mirrorPath : {"", MirrorPath}, shouldCommit : BOOLEAN,
   vmHydratedGitMirror : BOOLEAN, mirrorRefreshFailed : BOOLEAN,
   mirrorRefreshTimedOut : BOOLEAN]

\* A lease is held and its device is formatted; the mirror is absent,
\* partial or complete, the device mounted or not.
ApiInit ==
  /\ pc = "api"
  /\ invocation = 2
  /\ env = [vmIdSet |-> TRUE, vmId |-> "vm-1", githubRepoName |-> RepoName,
            token |-> Token]
  /\ state = EmptyState
  /\ broker = [granted |-> TRUE, holder |-> 1, exposeId |-> "expose-1",
               commits |-> <<>>]
  /\ disk \in [formatted : {TRUE}, mounted : BOOLEAN, umountTried : {FALSE},
                mirror : {"absent", "partial", "complete"}]
  /\ cacheInfo = NoCacheInfo
  /\ cmds = <<>>
  /\ ops = <<>>
  /\ opts = NoOpts
  /\ shouldCommit = FALSE
  /\ obs = NoObs
  /\ warnings = {}
  /\ failed = FALSE
  /\ self = 1
  /\ other = NoJob
  /\ fn = NoFn

\* refreshMirror(mirrorPath, repoUrl, authToken) called on the mirror path.
ApiRefreshMirror ==
  /\ pc = "api"
  /\ ~obs.refresh.ran
  /\ \E outcomes \in [1..MaxAttempts -> ExecOutcomes] :
       LET r == refreshMirror(disk.mirror, outcomes)
       IN  /\ obs' = [obs EXCEPT !.refresh = r,
                                 !.refreshExec =
                                   IF MirrorExists(disk.mirror)
                                     THEN outcomes[DecidingAttempt(outcomes, 1)]
                                     ELSE NoExec]
           /\ ops' = ops \o RefreshOps(disk.mirror)
           /\ warnings' = IF r.success THEN warnings
                          ELSE warnings \cup {"refresh-failed"}
  /\ UNCHANGED <<pc, invocation, env, state, broker, disk, cacheInfo, cmds,
                 opts, shouldCommit, failed, self, other, fn>>

\* cleanup(options) called with any options.
ApiCleanup ==
  /\ pc = "api"
  /\ opts' \in CleanupOptionsSet
  /\ pc' = "cleanup"
  /\ UNCHANGED <<invocation, env, state, broker, disk, cacheInfo, cmds, ops,
                 shouldCommit, obs, warnings, failed, self, other, fn>>

ApiNext ==
  \/ ApiRefreshMirror
  \/ ApiCleanup
  \/ CleanupStart
  \/ CleanupGC
  \/ CleanupFsck
  \/ CleanupSync
  \/ CleanupUmount
  \/ CleanupCommit

ApiSpec == ApiInit /\ [][ApiNext]_vars

----------------------------------------------------------------------------
\* getMountPoint and getMirrorPath. Strings are sequences of characters.

MOUNT_BASE ==
  <<"/", "b", "l", "a", "c", "k", "s", "m", "i", "t", "h", "-", "g", "i",
    "t", "-", "m", "i", "r", "r", "o", "r">>

MIRROR_VERSION == <<"v", "1">>

\* A name with a hyphen inside, as in "foo-bar".
HyphenName == <<"a", "-", "a">>

\* The owner names, and the characters repository names are made of. The
\* repository input is split at "/", so neither name holds a "/" and neither
\* is empty.
OwnerNames == {<<"a">>, <<"a", "-">>, <<"b">>, HyphenName}
RepoChars == {"a", "-", "."}

RepoNames ==
  UNION {[1..n -> RepoChars] : n \in 1..MaxNameLen} \cup {HyphenName}

\* a + "/" + b + "/" + ... for the arguments of path.join
RECURSIVE JoinWithSlash(_, _)
JoinWithSlash(parts, i) ==
  IF i > Len(parts) THEN <<>>
  ELSE IF i = Len(parts) THEN parts[i]
  ELSE parts[i] \o <<"/">> \o JoinWithSlash(parts, i + 1)

\* The segments of a path between its "/" characters.
RECURSIVE SplitPath(_, _, _)
SplitPath(s, i, cur) ==
  IF i > Len(s) THEN <<cur>>
  ELSE IF s[i] = "/" THEN <<cur>> \o SplitPath(s, i + 1, <<>>)
  ELSE SplitPath(s, i + 1, Append(cur, s[i]))

\* path.normalize on the segments of an absolute path: empty and "."
\* segments are dropped, ".." removes the segment before it (at the root
\* it is dropped).
RECURSIVE NormalizeSegments(_, _, _)
NormalizeSegments(segs, i, out) ==
  IF i > Len(segs) THEN out
  ELSE IF segs[i] = <<>> \/ segs[i] = <<".">>
    THEN NormalizeSegments(segs, i + 1, out)
  ELSE IF segs[i] = <<".", ".">>
    THEN NormalizeSegments(segs, i + 1,
           IF Len(out) > 0 THEN SubSeq(out, 1, Len(out) - 1) ELSE out)
  ELSE NormalizeSegments(segs, i + 1, Append(out, segs[i]))

\* path.join (posix) of parts whose first one is absolute.
pathJoin(parts) ==
  LET segs == NormalizeSegments(SplitPath(JoinWithSlash(parts, 1), 1, <<>>),
                                1, <<>>)
  IN  <<"/">> \o JoinWithSlash(segs, 1)

\* The file name of the mirror: `${owner}-${repo}.git`
MirrorFile(owner, repo) == owner \o <<"-">> \o repo \o <<".", "g", "i", "t">>

getMountPoint(owner, repo) == pathJoin(<<MOUNT_BASE, owner, repo>>)

getMirrorPath(owner, repo) ==
  pathJoin(<<getMountPoint(owner, repo), MIRROR_VERSION,
             MirrorFile(owner, repo)>>)

\* setupCache: `${owner}-${repo}`
stickyDiskKey(owner, repo) == owner \o <<"-">> \o repo

\* String.prototype.startsWith
StartsWith(s, prefix) ==
  Len(prefix) <= Len(s) /\ SubSeq(s, 1, Len(prefix)) = prefix

\* Two repositories are chosen; nothing else of the program runs.
PathInit ==
  /\ pc = "paths"
  /\ invocation = 0
  /\ env = [vmIdSet |-> TRUE, vmId |-> "vm-1", githubRepoName |-> RepoName,
            token |-> Token]
  /\ state = EmptyState
  /\ broker = [granted |-> FALSE, holder |-> 0, exposeId |-> "",
               commits |-> <<>>]
  /\ disk = [formatted |-> FALSE, mounted |-> FALSE, umountTried |-> FALSE,
             mirror |-> "absent"]
  /\ cacheInfo = NoCacheInfo
  /\ cmds = <<>>
  /\ ops = <<>>
  /\ opts = NoOpts
  /\ shouldCommit = FALSE
  /\ obs = NoObs
  /\ warnings = {}
  /\ failed = FALSE
  /\ self = 1
  /\ other = NoJob
  /\ \E o1 \in OwnerNames, r1 \in RepoNames,
        o2 \in OwnerNames, r2 \in RepoNames :
       fn = [NoFn EXCEPT !.owner1 = o1, !.repo1 = r1,
                         !.owner2 = o2, !.repo2 = r2]

\* getMountPoint is called for both repositories.
CallGetMountPoint ==
  /\ pc = "paths"
  /\ "getMountPoint" \notin fn.calls
  /\ fn' = [fn EXCEPT !.mount1 = getMountPoint(fn.owner1, fn.repo1),
                      !.mount2 = getMountPoint(fn.owner2, fn.repo2),
                      !.calls = @ \cup {"getMountPoint"}]
  /\ UNCHANGED <<pc, invocation, env, state, broker, disk, cacheInfo, cmds,
                 ops, opts, shouldCommit, obs, warnings, failed, self, other>>

\* getMirrorPath is called for both repositories.
CallGetMirrorPath ==
  /\ pc = "paths"
  /\ "getMirrorPath" \notin fn.calls
  /\ fn' = [fn EXCEPT !.mirror1 = getMirrorPath(fn.owner1, fn.repo1),
                      !.mirror2 = getMirrorPath(fn.owner2, fn.repo2),
                      !.calls = @ \cup {"getMirrorPath"}]
  /\ UNCHANGED <<pc, invocation, env, state, broker, disk, cacheInfo, cmds,
                 ops, opts, shouldCommit, obs, warnings, failed, self, other>>

\* setupCache builds the sticky disk key of both repositories.
CallStickyDiskKey ==
  /\ pc = "paths"
  /\ "stickyDiskKey" \notin fn.calls
  /\ fn' = [fn EXCEPT !.key1 = stickyDiskKey(fn.owner1, fn.repo1),
                      !.key2 = stickyDiskKey(fn.owner2, fn.repo2),
                      !.calls = @ \cup {"stickyDiskKey"}]
  /\ UNCHANGED <<pc, invocation, env, state, broker, disk, cacheInfo, cmds,
                 ops, opts, shouldCommit, obs, warnings, failed, self, other>>

PathNext == CallGetMountPoint \/ CallGetMirrorPath \/ CallStickyDiskKey

PathSpec == PathInit /\ [][PathNext]_vars

----------------------------------------------------------------------------
\* Single calls of exported helper functions. The call and its arguments are
\* held in fn, the position inside the function in pc.

\* Nothing of the action's two phases moves during such a call.
CallFrame ==
  UNCHANGED <<invocation, env, state, broker, disk, cacheInfo, cmds, ops,
              opts, shouldCommit, obs, warnings, failed, self, other>>

\* outcome: "pending" while the call runs, then "returned" or "threw".
NoCall ==
  [call |-> "", outcome |-> "pending", value |-> FALSE,
   alternates |-> FALSE, hadAlternates |-> FALSE, repacked |-> FALSE,
   portSet |-> FALSE, sent |-> FALSE,
   cacheSaveMode |-> <<>>, eventName |-> "", ref |-> "",
   defaultBranch |-> "unset"]

\* dissociate(workspacePath) on a workspace with or without an alternates
\* file.
DissociateCalls ==
  {[NoCall EXCEPT !.call = "dissociate", !.alternates = a,
                  !.hadAlternates = a] : a \in BOOLEAN}

\* What fs.promises.unlink can do: remove the file, or reject: with ENOENT
\* when there is no file, with another error (EACCES, EPERM, EROFS, ...) when
\* the file cannot be removed.
UnlinkOutcomes(exists) ==
  IF exists THEN {"removed", "error"} ELSE {"ENOENT"}

\* `await exec.exec('git', ['-C', workspacePath, 'repack', '-a', '-d'])`:
\* a failed repack throws out of dissociate.
DissociateRepack ==
  /\ pc = "call"
  /\ fn.call = "dissociate"
  /\ \E ok \in BOOLEAN :
       IF ok
         THEN /\ fn' = [fn EXCEPT !.repacked = TRUE]
              /\ pc' = "unlink"
         ELSE /\ fn' = [fn EXCEPT !.outcome = "threw"]
              /\ pc' = "done"
  /\ CallFrame

\* `try { await fs.promises.unlink(alternatesFile) } catch {}`
DissociateUnlink ==
  /\ pc = "unlink"
  /\ \E u \in UnlinkOutcomes(fn.alternates) :
       fn' = [fn EXCEPT !.alternates = IF u = "removed" THEN FALSE ELSE @,
                        !.outcome = "returned"]
  /\ pc' = "done"
  /\ CallFrame

\* reportInternalMetric(metricType, value, attributes) with
\* BLACKSMITH_METRICS_HTTP_PORT set or not.
MetricCalls ==
  {[NoCall EXCEPT !.call = "reportInternalMetric", !.portSet = p] :
     p \in BOOLEAN}

\* `if (!METRICS_PORT) return`, else the request is created, written and
\* ended inside the promise.
MetricStart ==
  /\ pc = "call"
  /\ fn.call = "reportInternalMetric"
  /\ IF ~fn.portSet
       THEN /\ fn' = [fn EXCEPT !.outcome = "returned"]
            /\ pc' = "done"
       ELSE /\ fn' = [fn EXCEPT !.sent = TRUE]
            /\ pc' = "request"
  /\ CallFrame

\* The request is in flight: 'error' and 'timeout' reject the promise, which
\* the catch turns into a debug log; a response calls the callback, which
\* resumes the response and waits for its 'end'.
MetricRequest ==
  /\ pc = "request"
  /\ \E event \in {"error", "timeout", "response"} :
       IF event = "response"
         THEN /\ fn' = fn
              /\ pc' = "response"
         ELSE /\ fn' = [fn EXCEPT !.outcome = "returned"]
              /\ pc' = "done"
  /\ CallFrame

\* The response is being read: 'end' resolves the promise and an idle
\* socket's 'timeout' rejects it. A connection closed before the end emits
\* 'aborted', 'error' and 'close' on the response only, which has no listener
\* for them: the promise is never settled, or the unhandled 'error' event
\* ends the process, as the runtime has it.
MetricResponse ==
  /\ pc = "response"
  /\ \E event \in {"end", "timeout", "aborted"} :
       IF event = "aborted"
         THEN /\ \E o \in {"pending", "crashed"} :
                   fn' = [fn EXCEPT !.outcome = o]
              /\ pc' = "closed"
         ELSE /\ fn' = [fn EXCEPT !.outcome = "returned"]
              /\ pc' = "done"
  /\ CallFrame

\* The letters of the modes, each with its upper case.
CasePairs ==
  {<<"a", "A">>, <<"b", "B">>, <<"e", "E">>, <<"g", "G">>,
   <<"l", "L">>, <<"n", "N">>, <<"o", "O">>, <<"r", "R">>,
   <<"s", "S">>, <<"t", "T">>, <<"u", "U">>, <<"v", "V">>,
   <<"w", "W">>, <<"y", "Y">>}

\* String.prototype.toLowerCase left out.
ToLowerCaseIdentity(s) == s

\* String.prototype.toLowerCase, character by character.
ToLowerCase(s) ==
  [i \in DOMAIN s |->
     IF \E p \in CasePairs : p[2] = s[i]
       THEN (CHOOSE p \in CasePairs : p[2] = s[i])[1]
       ELSE s[i]]

\* Values of the cache-save mode input: the three modes, in lower and in
\* mixed case, an unknown word and the empty string.
CacheSaveModes ==
  {<<"n", "e", "v", "e", "r">>,
   <<"a", "l", "w", "a", "y", "s">>,
   <<"a", "u", "t", "o">>,
   <<"A", "l", "w", "a", "y", "s">>,
   <<"A", "U", "T", "O">>,
   <<"N", "e", "v", "e", "r">>,
   <<"b", "o", "g", "u", "s">>,
   <<>>}

\* GITHUB_EVENT_NAME and GITHUB_REF ("" when unset), and what
\* getDefaultBranch gives: a ref, or an exception.
EventNames == {"", "push", "pull_request"}

Refs == {"", "refs/heads/main", "refs/heads/dev"}

DefaultBranchResults == {"threw", "refs/heads/main", "refs/heads/dev"}

\* shouldSaveCache(cacheSaveMode, owner, repo, authToken).
SaveCacheCalls ==
  {[NoCall EXCEPT !.call = "shouldSaveCache", !.cacheSaveMode = m,
                  !.eventName = e, !.ref = r] :
     m \in CacheSaveModes, e \in EventNames, r \in Refs}

\* The tests of the mode and of the event, up to the default-branch lookup.
SaveCacheMode ==
  /\ pc = "call"
  /\ fn.call = "shouldSaveCache"
  /\ LET mode == ToLowerCase(fn.cacheSaveMode)
     IN  IF mode = <<"n", "e", "v", "e", "r">>
           THEN /\ fn' = [fn EXCEPT !.outcome = "returned", !.value = FALSE]
                /\ pc' = "done"
         ELSE IF mode = <<"a", "l", "w", "a", "y", "s">>
           THEN /\ fn' = [fn EXCEPT !.outcome = "returned", !.value = TRUE]
                /\ pc' = "done"
         ELSE IF mode = <<"a", "u", "t", "o">>
           THEN IF fn.eventName /= "push"
                  THEN /\ fn' = [fn EXCEPT !.outcome = "returned",
                                           !.value = FALSE]
                       /\ pc' = "done"
                  ELSE /\ fn' = fn
                       /\ pc' = "lookup"
         ELSE /\ fn' = [fn EXCEPT !.outcome = "returned", !.value = FALSE]
              /\ pc' = "done"
  /\ CallFrame

\* `await githubApiHelper.getDefaultBranch(...)` inside try/catch, then
\* `ref === defaultBranch`.
SaveCacheLookup ==
  /\ pc = "lookup"
  /\ \E b \in DefaultBranchResults :
       fn' = [fn EXCEPT !.defaultBranch = b, !.outcome = "returned",
                        !.value = IF b = "threw" THEN FALSE ELSE fn.ref = b]
  /\ pc' = "done"
  /\ CallFrame

CallInit ==
  /\ pc = "call"
  /\ invocation = 0
  /\ env = [vmIdSet |-> TRUE, vmId |-> "vm-1", githubRepoName |-> RepoName,
            token |-> Token]
  /\ state = EmptyState
  /\ broker = [granted |-> FALSE, holder |-> 0, exposeId |-> "",
               commits |-> <<>>]
  /\ disk = [formatted |-> FALSE, mounted |-> FALSE, umountTried |-> FALSE,
             mirror |-> "absent"]
  /\ cacheInfo = NoCacheInfo
  /\ cmds = <<>>
  /\ ops = <<>>
  /\ opts = NoOpts
  /\ shouldCommit = FALSE
  /\ obs = NoObs
  /\ warnings = {}
  /\ failed = FALSE
  /\ self = 1
  /\ other = NoJob
  /\ fn \in DissociateCalls \cup MetricCalls \cup SaveCacheCalls

CallNext ==
  \/ DissociateRepack
  \/ DissociateUnlink
  \/ MetricStart
  \/ MetricRequest
  \/ MetricResponse
  \/ SaveCacheMode
  \/ SaveCacheLookup

CallSpec == CallInit /\ [][CallNext]_vars

----------------------------------------------------------------------------
\* Properties of the path functions

\* Both functions have been applied to both repositories.
PathsCalled == {"getMountPoint", "getMirrorPath"} \subseteq fn.calls

DistinctPairs == <<fn.owner1, fn.repo1>> /= <<fn.owner2, fn.repo2>>

\* C18: equal (owner, repo) pairs yield equal paths, and two distinct pairs
\* yield distinct mount points and distinct mirror paths.
C18_PathsInjective ==
  PathsCalled =>
    IF DistinctPairs
      THEN fn.mount1 /= fn.mount2 /\ fn.mirror1 /= fn.mirror2
      ELSE fn.mount1 = fn.mount2 /\ fn.mirror1 = fn.mirror2

\* C19: for two distinct repositories the mirror path of one does not start
\* with the mount point of the other.
C19_NoPrefixOverlap ==
  (PathsCalled /\ DistinctPairs) =>
    /\ ~StartsWith(fn.mirror1, fn.mount2)
    /\ ~StartsWith(fn.mirror2, fn.mount1)

\* C20: the mirror path starts with the mount point and is
\* {mountPoint}/v1/{owner}-{repo}.git, the mount point being
\* /blacksmith-git-mirror/{owner}/{repo}.
C20_MirrorPathFormat ==
  PathsCalled =>
    /\ StartsWith(fn.mirror1, fn.mount1)
    /\ fn.mirror1 = fn.mount1 \o <<"/">> \o MIRROR_VERSION \o <<"/">>
                      \o MirrorFile(fn.owner1, fn.repo1)
    /\ fn.mount1 = MOUNT_BASE \o <<"/">> \o fn.owner1 \o <<"/">> \o fn.repo1
    /\ StartsWith(fn.mirror2, fn.mount2)
    /\ fn.mirror2 = fn.mount2 \o <<"/">> \o MIRROR_VERSION \o <<"/">>
                      \o MirrorFile(fn.owner2, fn.repo2)
    /\ fn.mount2 = MOUNT_BASE \o <<"/">> \o fn.owner2 \o <<"/">> \o fn.repo2

----------------------------------------------------------------------------
\* Concurrent acquires of one key

\* The job was answered with the Aborted status.
Loser(job) == job.obs.answer.kind = "aborted"

\* C11: a job whose getStickyDisk was answered with the Aborted status runs
\* no format, mount or clone command, is never mounted, saves no lease, runs
\* no post-phase operation (so issues no commit call), and has called
\* getStickyDisk once only; the two jobs are never both mounted.
C11_LoserStaysOff ==
  /\ \A job \in {JobState, other} :
       Loser(job) =>
         /\ job.cmds = <<"up", "getStickyDisk">>
         /\ ~job.mounted
         /\ job.state.blacksmithCacheExposeId = ""
         /\ job.ops = <<>>
         /\ job.pc \in {"returned", "idle", "post_start", "exit"}
  /\ ~(disk.mounted /\ other.mounted)
  /\ \A i \in DOMAIN Commits : Commits[i].exposeId = broker.exposeId

C11_Witness ==
  /\ Loser(JobState)
  /\ PostEnded
  /\ other.pc = "exit"
  /\ other.mounted
  /\ "clone" \in Range(other.cmds)
  /\ Len(Commits) = 1

----------------------------------------------------------------------------
\* OperationResult

\* The exec outcome is the kill by `timeout`.
KilledByTimeout(o) == ~o.threw /\ o.exitCode = TIMEOUT_EXIT_CODE

\* The results the job has got, each with the exec outcome that decided it.
OperationResults ==
  {<<obs.refresh, obs.refreshExec>>, <<obs.gc, obs.gcExec>>,
   <<obs.fsck, obs.fsckExec>>}

\* C21: in every OperationResult got from refreshMirror, runMirrorGC and
\* runMirrorFsck timedOut implies not success and success implies no error;
\* the operations return (the job is not failed by them); timedOut holds
\* exactly when the deciding attempt ended with the timeout's exit code.
C21_OperationResultShape ==
  /\ ~failed
  /\ \A p \in OperationResults :
       /\ p[1].timedOut => ~p[1].success
       /\ p[1].success => p[1].error = ""
       /\ p[1].ran => (p[1].timedOut <=> KilledByTimeout(p[2]))
       /\ p[1].ran => (p[1].success <=> (~p[2].threw /\ p[2].exitCode = 0))

C21_Witness ==
  /\ obs.refresh.ran /\ obs.refresh.timedOut
  /\ obs.gc.ran /\ ~obs.gc.success /\ ~obs.gc.timedOut
  /\ obs.fsck.ran /\ obs.fsck.timedOut

----------------------------------------------------------------------------
\* refreshMirror without a mirror

\* C22: a call of refreshMirror on a path where nothing exists runs no
\* operation on the mirror and no command, changes nothing on the device,
\* logs no warning and returns {success: true, timedOut: false}.
C22_RefreshWithoutMirrorIsNoOp ==
  [][(~obs.refresh.ran /\ obs'.refresh.ran /\ disk.mirror = "absent") =>
       /\ obs'.refresh = Result(TRUE, FALSE, "")
       /\ obs'.refreshExec = NoExec
       /\ ops' = ops
       /\ cmds' = cmds
       /\ disk' = disk
       /\ warnings' = warnings]_vars

C22_Witness ==
  /\ obs.refresh.ran
  /\ obs.refresh.success
  /\ disk.mirror = "absent"
  /\ ops = <<>>

----------------------------------------------------------------------------
\* isBlacksmithEnvironment

\* The cache setup has been entered.
CacheTried == pc = "up" \/ Len(cmds) > 0

\* C23: isBlacksmithEnvironment has returned true exactly when
\* BLACKSMITH_VM_ID is set to a non-empty string (unset and empty both give
\* false), and the cache setup is entered exactly then.
C23_BlacksmithEnvIffVmId ==
  obs.inBlacksmith /= "unset" =>
    /\ obs.inBlacksmith = "true" <=> (env.vmIdSet /\ env.vmId /= "")
    /\ CacheTried <=> obs.inBlacksmith = "true"

C23_Witness ==
  /\ obs.inBlacksmith = "false"
  /\ env.vmIdSet
  /\ env.vmId = ""
  /\ PostEnded

----------------------------------------------------------------------------
\* Commit gating inside cleanup(options)

\* C24: every commit call with shouldCommit=true was preceded, in the same
\* cleanup, by an fsck that ran on the mirror and succeeded; also when the
\* options carry no mirror path.
C24_CommitTrueOnlyAfterFsck ==
  \A i \in DOMAIN Commits :
    Commits[i].shouldCommit => (obs.fsck.ran /\ obs.fsck.success)

\* cleanup(options) has assigned its local shouldCommit.
InCleanup == pc \in {"gc", "fsck", "sync", "umount", "commit", "exit"}

\* C26: the shouldCommit sent to the broker is options.shouldCommit AND NOT
\* mirrorRefreshFailed AND NOT mirrorRefreshTimedOut AND, when a mirror path
\* is given, gcResult.success AND fsckResult.success; inside cleanup
\* shouldCommit never goes from false back to true.
C26_CommitConjunction ==
  /\ [](\A i \in DOMAIN Commits :
          Commits[i].shouldCommit <=>
            /\ opts.shouldCommit
            /\ ~opts.mirrorRefreshFailed
            /\ ~opts.mirrorRefreshTimedOut
            /\ (opts.mirrorPath /= "" =>
                  obs.gc.success /\ obs.fsck.success))
  /\ [][(InCleanup /\ ~shouldCommit) => ~shouldCommit']_vars

C26_Witness ==
  /\ Len(Commits) = 1
  /\ opts.shouldCommit
  /\ opts.mirrorRefreshTimedOut /\ ~opts.mirrorRefreshFailed
  /\ opts.mirrorPath /= ""
  /\ obs.gc.ran /\ obs.gc.success
  /\ obs.fsck.ran /\ obs.fsck.success
  /\ ~Commits[1].shouldCommit

\* How many times an operation was run.
Count(seq, x) == Cardinality({i \in DOMAIN seq : seq[i] = x})

\* C27: with a mirror path, GC and fsck are each run at most once, both
\* have run exactly once when the commit call is made (fsck also after a
\* failed GC), and a cleanup that has ended has made the commit call,
\* whatever failed in GC, fsck, sync or unmount and whatever the incoming
\* shouldCommit was.
C27_GCAndFsckOnceThenCommit ==
  /\ Count(ops, "gc") <= 1 /\ Count(ops, "fsck") <= 1
  /\ (opts.mirrorPath /= "" /\ pc \in {"commit", "exit"}) =>
       (Count(ops, "gc") = 1 /\ Count(ops, "fsck") = 1)
  /\ (obs.gc.ran /\ pc \in {"sync", "umount", "commit", "exit"}) =>
       obs.fsck.ran
  /\ PostEnded => Len(Commits) = 1

C27_Witness ==
  /\ PostEnded
  /\ Len(Commits) = 1
  /\ ~opts.shouldCommit
  /\ obs.gc.ran /\ obs.gc.timedOut
  /\ obs.fsck.ran /\ ~obs.fsck.success
  /\ {"sync-failed", "umount-failed"} \subseteq warnings

\* C28: once fsck has started, the only operations up to the commit call
\* are sync and unmount: no clone, fetch or GC runs on the mirror.
C28_NothingMutatesAfterFsck ==
  \A i \in DOMAIN ops : \A j \in DOMAIN ops :
    (ops[i] = "fsck" /\ i < j) => ops[j] \in {"sync", "umount", "commit"}

C28_Witness ==
  /\ Len(Commits) = 1
  /\ Count(ops, "refresh") = 1
  /\ Count(ops, "gc") = 1
  /\ Count(ops, "fsck") = 1
  /\ Count(ops, "sync") = 1

----------------------------------------------------------------------------
\* Sticky disk keys

\* C25: two distinct (owner, repo) pairs are given distinct sticky disk
\* keys by setupCache.
C25_KeysInjective ==
  ("stickyDiskKey" \in fn.calls /\ DistinctPairs) => fn.key1 /= fn.key2

----------------------------------------------------------------------------
\* maybeFormatDevice

\* C29: mkfs runs only on a device that carried no filesystem; on a device
\* that carried one resize2fs runs instead, and a failed resize is followed
\* by the mount.
C29_FormattedDeviceNeverReformatted ==
  /\ "mkfs" \in Range(cmds) => obs.hadFilesystem = "false"
  /\ obs.hadFilesystem = "true" => "resize2fs" \in Range(cmds)
  /\ ("resize-failed" \in warnings /\ pc /= "mount") =>
       "mkdir" \in Range(cmds)

----------------------------------------------------------------------------
\* The lease across the two phases

\* C30: the exposeId and stickyDiskKey of the commit call are the values
\* saved to the cross-phase state in the main phase, which are the expose
\* id the broker returned and the key setupCache asked for.
C30_CommitTargetsSavedLease ==
  \A i \in DOMAIN Commits :
    /\ Commits[i].exposeId = state.blacksmithCacheExposeId
    /\ Commits[i].stickyDiskKey = state.blacksmithCacheStickyDiskKey
    /\ Commits[i].exposeId = broker.exposeId
    /\ Commits[i].stickyDiskKey = StickyDiskKey
    /\ Commits[i].exposeId /= ""

C30_Witness ==
  /\ invocation = 2
  /\ Len(Commits) = 1
  /\ Commits[1].exposeId = broker.exposeId
  /\ Commits[1].stickyDiskKey = StickyDiskKey
  /\ state.blacksmithCacheExposeId /= ""

\* C31: the repoName of the commit call is the repoName of the getStickyDisk
\* call that acquired the lease.
C31_CommitRepoNameIsAcquireRepoName ==
  \A i \in DOMAIN Commits : Commits[i].repoName = obs.acquireRepoName

----------------------------------------------------------------------------
\* The hydration report

\* C32: the vmHydratedGitMirror of the commit call is true only if the saved
\* performedHydration flag is "true": a run that found the mirror in place
\* (no clone ran) or whose state holds no flag reports false.
C32_HydratedOnlyIfThisRunHydrated ==
  \A i \in DOMAIN Commits :
    Commits[i].vmHydratedGitMirror =>
      /\ state.blacksmithCachePerformedHydration = "true"
      /\ "clone" \in Range(cmds)

C32_Witness ==
  /\ Len(Commits) = 1
  /\ state.blacksmithCachePerformedHydration = "false"
  /\ Commits[1].shouldCommit
  /\ ~Commits[1].vmHydratedGitMirror

----------------------------------------------------------------------------
\* The post phase without a lease

\* No lease was saved by the main phase.
NoLeaseSaved ==
  state.blacksmithCacheExposeId = "" \/ state.blacksmithCacheStickyDiskKey = ""

\* C33: when the cross-phase state holds an empty exposeId or an empty
\* stickyDiskKey, the post phase runs no refresh, no job-failure check, no
\* GC, no fsck, no unmount and makes no broker call.
C33_NoLeaseNoCleanup ==
  NoLeaseSaved =>
    /\ ops = <<>>
    /\ Commits = <<>>
    /\ ~obs.refresh.ran /\ ~obs.gc.ran /\ ~obs.fsck.ran
    /\ obs.jobCheck = "unset"
    /\ ~disk.umountTried
    /\ pc \notin {"post_refresh", "post_check", "cleanup", "gc", "fsck",
                  "sync", "umount", "commit"}

C33_Witness ==
  /\ PostEnded
  /\ NoLeaseSaved
  /\ obs.answer.kind = "aborted"
  /\ ops = <<>>

----------------------------------------------------------------------------
\* Two-phase dispatch

\* The positions of run() and of cleanup().
RunSteps == {"up", "getStickyDisk", "format", "mount", "returned",
             "ensureMirror"}

CleanupSteps == {"post_start", "post_refresh", "post_check", "cleanup", "gc",
                 "fsck", "sync", "umount", "commit", "exit"}

\* C34: the first invocation executes run() only and saves isPost, the
\* second executes cleanup() only; nothing of cleanup() happens before the
\* second invocation and nothing of run() in it.
C34_TwoPhaseDispatch ==
  /\ [](/\ invocation = 0 => (state.isPost = "" /\ pc = "idle")
        /\ invocation = 1 =>
             (pc \in RunSteps \cup {"idle"} /\ state.isPost = "true")
        /\ invocation = 2 => (pc \in CleanupSteps /\ state.isPost = "true")
        /\ invocation < 2 =>
             (ops = <<>> /\ Commits = <<>> /\ obs.jobCheck = "unset"))
  /\ [][invocation' = 2 => cmds' = cmds]_vars

C34_Witness ==
  /\ invocation = 2
  /\ pc = "commit"
  /\ "clone" \in Range(cmds)
  /\ "fsck" \in Range(ops)

----------------------------------------------------------------------------
\* The token and the cross-phase state

\* The values held by the cross-phase state.
SavedValues == {state[k] : k \in DOMAIN state}

----------------------------------------------------------------------------
\* dissociate

\* C36: dissociate removes the alternates file only after a successful
\* repack; when the repack fails it throws and leaves the file as it was;
\* when it returns no alternates file exists, and a file that was already
\* missing is not an error.
C36_AlternatesRemovedOnlyAfterRepack ==
  fn.call = "dissociate" =>
    /\ fn.alternates /= fn.hadAlternates => fn.repacked
    /\ fn.outcome = "threw" =>
         (~fn.repacked /\ fn.alternates = fn.hadAlternates)
    /\ fn.outcome = "returned" => (fn.repacked /\ ~fn.alternates)
    /\ (pc = "done" /\ fn.repacked) => fn.outcome = "returned"

----------------------------------------------------------------------------
\* reportInternalMetric

\* C37: reportInternalMetric never throws and never stays unsettled: when
\* no further event can arrive the call has returned; with the metrics port
\* unset no request is sent.
C37_MetricCallAlwaysCompletes ==
  fn.call = "reportInternalMetric" =>
    /\ fn.outcome \in {"pending", "returned"}
    /\ ~fn.portSet => ~fn.sent
    /\ ~ENABLED CallNext => fn.outcome = "returned"

----------------------------------------------------------------------------
\* shouldSaveCache

\* The mode is the word, whatever the case of its letters.
IsMode(s, word) ==
  /\ Len(s) = Len(word)
  /\ \A i \in DOMAIN s :
       s[i] = word[i] \/ \E p \in CasePairs : p[1] = word[i] /\ p[2] = s[i]

\* C38: shouldSaveCache never throws and always returns; it returns true
\* exactly when the mode is 'always' in any case, or the mode is 'auto', the
\* event is 'push' and GITHUB_REF is the default branch that the lookup
\* returned.
C38_ShouldSaveCacheDecision ==
  fn.call = "shouldSaveCache" =>
    /\ fn.outcome /= "threw"
    /\ ~ENABLED CallNext => fn.outcome = "returned"
    /\ fn.outcome = "returned" =>
         (fn.value <=>
            \/ IsMode(fn.cacheSaveMode, <<"a", "l", "w", "a", "y", "s">>)
            \/ /\ IsMode(fn.cacheSaveMode, <<"a", "u", "t", "o">>)
               /\ fn.eventName = "push"
               /\ fn.defaultBranch \notin {"unset", "threw"}
               /\ fn.ref = fn.defaultBranch)

C38_Witness ==
  /\ fn.call = "shouldSaveCache"
  /\ fn.outcome = "returned"
  /\ fn.cacheSaveMode = <<"A", "U", "T", "O">>
  /\ fn.eventName = "push"
  /\ fn.ref = "refs/heads/main"
  /\ fn.defaultBranch = "refs/heads/main"
  /\ fn.value
====
